---- MODULE Spec2Model ----
(***************************************************************************)
(* A model of the CS-488 Information-Retrieval programs:                   *)
(*   Assignment-02/simple_dictionary.py      the chained hash table        *)
(*   Assignment-01/document_search_engine.py title/content TF engine       *)
(*   Assignment-02/document_search_engine.py TF and TF-IDF engine          *)
(*   Assignment-03/binaryIndependenceModel.py BIM with the Dice score      *)
(*   Assignment-03/proximalNodesModel.py     term/document graph and BFS   *)
(* Text is a sequence of words (what str.split() yields); a word is a      *)
(* sequence of one-character strings, so that lower(), isalnum(),          *)
(* endswith() and the substring test are computed on characters.           *)
(***************************************************************************)
EXTENDS Integers, Sequences, FiniteSets, TLC

VARIABLES
    prog,          \* which program this run executes
    lastOp,        \* the call whose result is held; "menu" when none is
    hashSeed,      \* the per-process seed of Python's str hash
    \* ---- SimpleDictionary used on its own
    store,         \* a SimpleDictionary object: [kind, size, buckets]
    ret,           \* what the last call returned (add and delete: nothing)
    added,         \* history: per key, the values added since its last delete
    deleted,       \* history: the keys delete was called with
    lastKey,       \* the key of the last call
    nOps,          \* add and delete calls so far
    \* ---- the search engines
    folder,        \* the files of the documents folder, in os.listdir order
    documents,     \* Assignment-02: SimpleDictionary; Assignment-01: dict
    inverted_index,\* Assignment-02 self.inverted_index
    tf_idf_scores, \* Assignment-02 self.tf_idf_scores (values are references)
    heap,          \* the dict objects tf_idf_scores refers to
    title_index,   \* Assignment-01 self.title_index
    content_index, \* Assignment-01 self.content_index
    loaded,        \* load_documents / load_and_index_documents has run
    nBuild,        \* build_inverted_index calls so far
    nTfIdf,        \* compute_tf_idf calls so far
    query,         \* the query of the last ranking call
    search_by,     \* Assignment-01: "title" or "content" of the last search
    result,        \* what the last ranking call returned
    \* ---- the proximal-nodes model
    graph,         \* node -> set of neighbour nodes
    cur_doc,       \* build_graph: the doc_id of the document being linked
    edge_no,       \* build_graph: add_edge calls made for that document
    visited,       \* retrieve_documents: visited
    connected_documents, \* retrieve_documents: connected_documents
    queue,         \* retrieve_documents: queue
    \* ---- compute_similarity on its own
    vectors,       \* the two vectors <<a, b>> handed to compute_similarity
    dice,          \* <<compute_similarity(a, b), compute_similarity(b, a)>>
    \* ---- the IDF loop of compute_tf_idf on its own
    loop_doc_count,\* doc_count
    loop_df,       \* df of the term
    loop_temp,     \* temp_doc_count
    loop_idf,      \* idf
    \* ---- extract_nouns on its own
    noun_text,     \* text, as the words text.split() yields
    noun_isTitle,  \* isTitle
    nouns          \* what extract_nouns returned

(***************************************************************************)
(* Bounds of the model                                                     *)
(***************************************************************************)
MaxSize == 2      \* SimpleDictionary(size): sizes 1..MaxSize when used alone
MaxKey == 2       \* keys 0..MaxKey of the stand-alone dictionary
MaxVal == 1       \* values 0..MaxVal of the stand-alone dictionary
MaxOps == 4       \* add/delete calls on the stand-alone dictionary
DefaultSize == 3  \* the engines' bucket count (the default 100, scaled down)
MaxDocs == 4      \* files in the folder
MaxQueryLen == 2  \* words in a query
MaxBuild == 1     \* build_inverted_index calls
MaxTfIdf == 2     \* compute_tf_idf calls
MaxGraphDocs == 2 \* documents of the proximal-nodes model
MaxDocCount == 16 \* doc_count 0..MaxDocCount of the IDF loop on its own
MaxDf == 3        \* df 1..MaxDf of the IDF loop on its own
MaxTextLen == 3   \* words of the text handed to extract_nouns on its own
MaxVecLen == 3    \* length of the vectors handed to compute_similarity

(***************************************************************************)
(* Characters and words                                                    *)
(***************************************************************************)
LowerLetters ==
    <<"a","b","c","d","e","f","g","h","i","j","k","l","m",
      "n","o","p","q","r","s","t","u","v","w","x","y","z">>

UpperLetters ==
    <<"A","B","C","D","E","F","G","H","I","J","K","L","M",
      "N","O","P","Q","R","S","T","U","V","W","X","Y","Z">>

Digits == <<"0","1","2","3","4","5","6","7","8","9">>

Range(s) == {s[i] : i \in DOMAIN s}

IndexOf(s, c) == CHOOSE i \in DOMAIN s : s[i] = c

\* the characters the model uses
Chars ==
    Range(Digits) \cup Range(UpperLetters) \cup Range(LowerLetters)
        \cup {".", "_"}

\* ord(c) for the characters the model uses (ASCII), as a table
CharCodes ==
    [c \in Chars |->
        IF c \in Range(Digits) THEN 47 + IndexOf(Digits, c)
        ELSE IF c \in Range(UpperLetters) THEN 64 + IndexOf(UpperLetters, c)
        ELSE IF c \in Range(LowerLetters) THEN 96 + IndexOf(LowerLetters, c)
        ELSE IF c = "." THEN 46
        ELSE 95]   \* "_"

CharCode(c) == CharCodes[c]

UpperChars == Range(UpperLetters)

\* str.isupper() of one character
IsUpperChar(c) == c \in UpperChars

\* str.lower() of one character
LowerChar(c) ==
    IF IsUpperChar(c) THEN LowerLetters[IndexOf(UpperLetters, c)] ELSE c

\* str.lower()
Lower(w) == [i \in DOMAIN w |-> LowerChar(w[i])]

LowerText(text) == [i \in DOMAIN text |-> Lower(text[i])]

\* str.isalnum(): non-empty and every character a letter or a digit
IsAlnum(w) ==
    /\ Len(w) > 0
    /\ \A i \in DOMAIN w :
          w[i] \in Range(LowerLetters) \cup Range(UpperLetters)
                     \cup Range(Digits)

\* str.endswith(suffix)
EndsWith(w, suf) ==
    /\ Len(suf) <= Len(w)
    /\ SubSeq(w, Len(w) - Len(suf) + 1, Len(w)) = suf

\* needle in hay, for two words
IsSubstring(needle, hay) ==
    \/ Len(needle) = 0
    \/ \E i \in 1..Len(hay) :
          /\ i + Len(needle) - 1 <= Len(hay)
          /\ SubSeq(hay, i, i + Len(needle) - 1) = needle

\* The words of the model's texts and queries
W_cat == <<"c","a","t">>
W_cats == <<"c","a","t","s">>
W_Cats == <<"C","a","t","s">>
W_dog == <<"d","o","g">>
W_the == <<"t","h","e">>
W_at == <<"a","t">>
W_owner == <<"o","w","n","e","r">>
W_catdot == <<"c","a","t",".">>
W_doc0 == <<"d","o","c","_","0">>

\* nltk stopwords.words('english'), restricted to the model's words
stop_words == {W_the, W_at}

\* the nouns WordNet knows, restricted to the model's words
WordNetNouns == {W_cat, W_dog, W_owner}

\* WordNetLemmatizer.lemmatize(word): the "s" detachment rule of morphy,
\* accepted when the stem is a WordNet noun; any other word is returned as is
lemmatize(w) ==
    IF /\ Len(w) > 1
       /\ w[Len(w)] = "s"
       /\ SubSeq(w, 1, Len(w) - 1) \in WordNetNouns
    THEN SubSeq(w, 1, Len(w) - 1)
    ELSE w

\* preprocess without its stop-word filter
RECURSIVE PreprocessKeepStop(_, _)
PreprocessKeepStop(words, alnumOnly) ==
    IF words = <<>> THEN <<>>
    ELSE (IF alnumOnly => IsAlnum(Head(words))
          THEN <<lemmatize(Head(words))>> ELSE <<>>)
            \o PreprocessKeepStop(Tail(words), alnumOnly)

\* [f(x) for x in s if P(x)], for the two comprehensions of preprocess
RECURSIVE PreprocessFrom(_, _)
PreprocessFrom(words, alnumOnly) ==
    IF words = <<>> THEN <<>>
    ELSE LET w == Head(words)
             keep == /\ (alnumOnly => IsAlnum(w))
                     /\ w \notin stop_words
         IN  (IF keep THEN <<lemmatize(w)>> ELSE <<>>)
                \o PreprocessFrom(Tail(words), alnumOnly)

\* preprocess of Assignment-02 and of the BIM: lower, split, drop stop
\* words, lemmatize
preprocess(text) == PreprocessFrom(LowerText(text), FALSE)

\* preprocess of the proximal-nodes model: also drops non-alphanumeric words
preprocessAlnum(text) == PreprocessFrom(LowerText(text), TRUE)

\* how often x occurs in the sequence s
RECURSIVE Count(_, _)
Count(s, x) ==
    IF s = <<>> THEN 0
    ELSE (IF Head(s) = x THEN 1 ELSE 0) + Count(Tail(s), x)

(***************************************************************************)
(* hash()                                                                  *)
(***************************************************************************)
\* Python's hash of a str: a keyed hash whose key is drawn per process.
\* Only its being a fixed function of (seed, word) matters to the programs.
RECURSIVE StrHashFrom(_, _, _)
StrHashFrom(seed, w, i) ==
    IF i > Len(w) THEN 0
    ELSE (seed + i) * CharCode(w[i]) + StrHashFrom(seed, w, i + 1)

StrHash(w) == StrHashFrom(hashSeed, w, 1)

\* the seeds a process may draw
HashSeeds == {0, 1}

(***************************************************************************)
(* SimpleDictionary                                                        *)
(***************************************************************************)
\* SimpleDictionary(size): size empty buckets.  kind records the type of
\* the keys the store is used with ("int" or "str"), which selects hash().
SimpleDictionary(kind, size) ==
    [kind |-> kind, size |-> size, buckets |-> [i \in 1..size |-> <<>>]]

\* _hash(key), as the 1-based position of the bucket
\* (hash of a small non-negative int is the int itself)
_hash(d, key) ==
    ((IF d.kind = "int" THEN key ELSE StrHash(key)) % d.size) + 1

\* the position of key in a bucket, 0 when absent (the enumerate loop)
FindKey(bucket, key) ==
    IF \E i \in DOMAIN bucket : bucket[i].k = key
    THEN CHOOSE i \in DOMAIN bucket :
            /\ bucket[i].k = key
            /\ \A j \in 1..(i - 1) : bucket[j].k # key
    ELSE 0

RemoveAt(s, i) == SubSeq(s, 1, i - 1) \o SubSeq(s, i + 1, Len(s))

\* add that never looks for the key
addAlwaysAppend(d, key, value) ==
    [d EXCEPT !.buckets[_hash(d, key)] =
                 Append(@, [k |-> key, v |-> <<value>>])]

\* add(key, value)
add(d, key, value) ==
    LET index == _hash(d, key)
        bucket == d.buckets[index]
        i == FindKey(bucket, key)
    IN  IF i # 0
        THEN [d EXCEPT !.buckets[index][i] =
                          [k |-> key, v |-> bucket[i].v \o <<value>>]]
        ELSE [d EXCEPT !.buckets[index] =
                          Append(bucket, [k |-> key, v |-> <<value>>])]

\* get(key)
get(d, key) ==
    LET index == _hash(d, key)
        bucket == d.buckets[index]
        i == FindKey(bucket, key)
    IN  IF i # 0 THEN bucket[i].v ELSE <<>>

\* a get that enters an absent key with no values
StoreAfterGetInserting(d, key) ==
    IF FindKey(d.buckets[_hash(d, key)], key) # 0 THEN d
    ELSE [d EXCEPT !.buckets[_hash(d, key)] =
                      Append(@, [k |-> key, v |-> <<>>])]

\* what get leaves in the store: it writes nothing
StoreAfterGet(d, key) == d

\* the store after get was called for each key of keys
RECURSIVE AfterGets(_, _)
AfterGets(d, keys) ==
    IF keys = <<>> THEN d
    ELSE AfterGets(StoreAfterGet(d, Head(keys)), Tail(keys))

\* delete that empties the bucket of the key
deleteBucket(d, key) ==
    IF FindKey(d.buckets[_hash(d, key)], key) # 0
    THEN [d EXCEPT !.buckets[_hash(d, key)] = <<>>]
    ELSE d

\* delete(key)
delete(d, key) ==
    LET index == _hash(d, key)
        bucket == d.buckets[index]
        i == FindKey(bucket, key)
    IN  IF i # 0
        THEN [d EXCEPT !.buckets[index] = RemoveAt(bucket, i)]
        ELSE d

(***************************************************************************)
(* Numbers.  A weight or score that Python holds as a float is the exact   *)
(* fraction <<numerator, denominator>> with a positive denominator.        *)
(***************************************************************************)
RatAdd(a, b) == <<a[1] * b[2] + b[1] * a[2], a[2] * b[2]>>

RatLess(a, b) == a[1] * b[2] < b[1] * a[2]

\* two fractions denote the same number
SameFraction(a, b) == a[1] * b[2] = b[1] * a[2]

RECURSIVE Pow(_, _)
Pow(b, k) == IF k = 0 THEN 1 ELSE b * Pow(b, k - 1)

\* the least number of floor-divisions by d that bring n down to at most 1
Divisions(n, d) ==
    CHOOSE k \in 0..n :
        /\ n \div Pow(d, k) <= 1
        /\ \A j \in 0..(k - 1) : n \div Pow(d, j) > 1

\* x < y for two scores: ints of the TF search, fractions otherwise
ScoreLess(x, y, isRat) == IF isRat THEN RatLess(x, y) ELSE x < y

(***************************************************************************)
(* dict(): an insertion-ordered map, as the sequence of its items          *)
(***************************************************************************)
ItemKeys(items) == [i \in DOMAIN items |-> items[i].id]

ItemAt(items, id) == CHOOSE i \in DOMAIN items : items[i].id = id

\* an insertion that puts the item before the items of equal score
RECURSIVE InsertDescUnstable(_, _, _)
InsertDescUnstable(sortedItems, item, isRat) ==
    IF sortedItems = <<>> THEN <<item>>
    ELSE IF ~ScoreLess(item.score, Head(sortedItems).score, isRat)
         THEN <<item>> \o sortedItems
         ELSE <<Head(sortedItems)>>
                 \o InsertDescUnstable(Tail(sortedItems), item, isRat)

\* sorted(items, key=lambda x: x[1], reverse=True): by score, highest
\* first, items of equal score keeping their order (the sort is stable)
RECURSIVE InsertDesc(_, _, _)
InsertDesc(sortedItems, item, isRat) ==
    IF sortedItems = <<>> THEN <<item>>
    ELSE IF ScoreLess(Head(sortedItems).score, item.score, isRat)
         THEN <<item>> \o sortedItems
         ELSE <<Head(sortedItems)>>
                 \o InsertDesc(Tail(sortedItems), item, isRat)

RECURSIVE SortedDesc(_, _)
SortedDesc(items, isRat) ==
    IF items = <<>> THEN <<>>
    ELSE InsertDesc(SortedDesc(SubSeq(items, 1, Len(items) - 1), isRat),
                    items[Len(items)], isRat)

\* the distinct elements of s, in the order of their first occurrence
RECURSIVE Distinct(_)
Distinct(s) ==
    IF s = <<>> THEN <<>>
    ELSE LET r == Distinct(SubSeq(s, 1, Len(s) - 1))
             x == s[Len(s)]
         IN  IF x \in Range(r) THEN r ELSE Append(r, x)

(***************************************************************************)
(* Assignment-02: DocumentSearchEngine                                     *)
(***************************************************************************)
W_owners == <<"o","w","n","e","r","s">>

File(title, content) == [title |-> title, content |-> content]

\* the files a documents folder may hold: first line (title), rest (content)
Files ==
    { File(<<W_Cats>>, <<W_the, W_owners, W_owner>>),
      File(<<W_dog>>, <<W_dog>>) }

Folders == UNION {[1..n -> Files] : n \in 0..MaxDocs}

QueryWords == {W_owners, W_dog, W_the}

Queries == UNION {[1..n -> QueryWords] : n \in 0..MaxQueryLen}

\* load_documents: the files get the ids 0, 1, ... in folder order
RECURSIVE LoadFrom(_, _, _)
LoadFrom(docs, files, doc_id) ==
    IF doc_id >= Len(files) THEN docs
    ELSE LoadFrom(add(docs, doc_id, files[doc_id + 1]), files, doc_id + 1)

load_documents(docs, files) == LoadFrom(docs, files, 0)

\* doc["title"] + " " + doc["content"], as words
DocText(doc) == doc.title \o doc.content

\* for term in terms: self.inverted_index.add(term, doc_id)
RECURSIVE AddTerms(_, _, _)
AddTerms(index, terms, doc_id) ==
    IF terms = <<>> THEN index
    ELSE AddTerms(add(index, Head(terms), doc_id), Tail(terms), doc_id)

\* the loop of build_inverted_index from doc_id on;
\* doc_id runs over range(len(self.documents.buckets))
RECURSIVE BuildFrom(_, _, _)
BuildFrom(docs, index, doc_id) ==
    IF doc_id >= Len(docs.buckets) THEN index
    ELSE LET doc_data == get(docs, doc_id)
         IN  BuildFrom(docs,
                       IF doc_data # <<>>
                       THEN AddTerms(index,
                                     preprocess(DocText(doc_data[1])), doc_id)
                       ELSE index,
                       doc_id + 1)

build_inverted_index(docs, index) == BuildFrom(docs, index, 0)

\* sum(len(bucket) for bucket in self.documents.buckets)
RECURSIVE SumLens(_, _)
SumLens(buckets, i) ==
    IF i > Len(buckets) THEN 0 ELSE Len(buckets[i]) + SumLens(buckets, i + 1)

doc_count(docs) == SumLens(docs.buckets, 1)

\* doc_tf_scores of one document: term -> count / total_terms
TfScores(terms) == [t \in Range(terms) |-> <<Count(terms, t), Len(terms)>>]

\* The first loop of compute_tf_idf for one doc_id.  st holds the
\* tf_idf_scores store, the heap of the dict objects it refers to, and
\* term_doc_frequency as its keys in insertion order (order) and df.
TfDoc(st, docs, doc_id) ==
    LET doc_data == get(docs, doc_id)
    IN  IF doc_data = <<>> THEN st
        ELSE LET terms == preprocess(DocText(doc_data[1]))
                 keys == Distinct(terms)
                 ref == Len(st.heap) + 1
                 IsNew(t) == t \notin Range(st.order)
             IN  [scores |-> add(st.scores, doc_id, ref),
                  heap |-> Append(st.heap, TfScores(terms)),
                  order |-> st.order \o SelectSeq(keys, IsNew),
                  df |-> [t \in DOMAIN st.df \cup Range(keys) |->
                            (IF t \in DOMAIN st.df THEN st.df[t] ELSE 0)
                            + (IF t \in Range(keys) THEN 1 ELSE 0)]]

RECURSIVE TfFrom(_, _, _)
TfFrom(st, docs, doc_id) ==
    IF doc_id >= Len(docs.buckets) THEN st
    ELSE TfFrom(TfDoc(st, docs, doc_id), docs, doc_id + 1)

\* a loop that goes on until the running value is 0
IdfContinuesToZero(temp_doc_count) == temp_doc_count > 0

\* the loop condition: temp_doc_count > 1
IdfContinues(temp_doc_count) == temp_doc_count > 1

\* while temp_doc_count > 1: idf += 1; temp_doc_count //= (1 + df)
RECURSIVE IdfLoop(_, _, _)
IdfLoop(temp_doc_count, df, idf) ==
    IF IdfContinues(temp_doc_count)
    THEN IdfLoop(temp_doc_count \div (1 + df), df, idf + 1)
    ELSE idf

\* doc_scores[0][term] *= idf; self.tf_idf_scores.add(doc_id, doc_scores[0])
\* (the multiplication is in place, on the object the entry refers to first)
UpdateDoc(st, term, idf, doc_id) ==
    LET doc_scores == get(st.scores, doc_id)
    IN  IF doc_scores # <<>> /\ term \in DOMAIN st.heap[doc_scores[1]]
        THEN LET ref == doc_scores[1]
                 w == st.heap[ref][term]
             IN  [st EXCEPT !.heap[ref][term] = <<w[1] * idf, w[2]>>,
                            !.scores = add(st.scores, doc_id, ref)]
        ELSE st

RECURSIVE UpdateFrom(_, _, _, _)
UpdateFrom(st, term, idf, doc_id) ==
    IF doc_id >= Len(st.scores.buckets) THEN st
    ELSE UpdateFrom(UpdateDoc(st, term, idf, doc_id), term, idf, doc_id + 1)

\* the second loop of compute_tf_idf, over term_doc_frequency.items()
RECURSIVE IdfFrom(_, _, _)
IdfFrom(st, n, i) ==
    IF i > Len(st.order) THEN st
    ELSE LET term == st.order[i]
             idf == IdfLoop(n, st.df[term], 0)
         IN  IdfFrom(UpdateFrom(st, term, idf, 0), n, i + 1)

compute_tf_idf(docs, scores, objs) ==
    LET st0 == [scores |-> scores, heap |-> objs, order |-> <<>>, df |-> <<>>]
    IN  IdfFrom(TfFrom(st0, docs, 0), doc_count(docs), 1)

\* a scoring that counts a document once, however often its id is posted
BumpOnce(doc_scores, doc_id) ==
    IF doc_id \in Range(ItemKeys(doc_scores))
    THEN doc_scores
    ELSE Append(doc_scores, [id |-> doc_id, score |-> 1])

\* doc_scores[doc_id] = doc_scores.get(doc_id, 0) + 1
Bump(doc_scores, doc_id) ==
    IF doc_id \in Range(ItemKeys(doc_scores))
    THEN [doc_scores EXCEPT ![ItemAt(doc_scores, doc_id)].score = @ + 1]
    ELSE Append(doc_scores, [id |-> doc_id, score |-> 1])

RECURSIVE BumpAll(_, _)
BumpAll(doc_scores, matching_docs) ==
    IF matching_docs = <<>> THEN doc_scores
    ELSE BumpAll(Bump(doc_scores, Head(matching_docs)), Tail(matching_docs))

\* the loop of search over query_terms
RECURSIVE TfScan(_, _, _)
TfScan(index, query_terms, doc_scores) ==
    IF query_terms = <<>> THEN doc_scores
    ELSE TfScan(index, Tail(query_terms),
                BumpAll(doc_scores, get(index, Head(query_terms))))

\* search(query)
search(index, q) == SortedDesc(TfScan(index, preprocess(q), <<>>), FALSE)

\* doc_scores[doc_id] = doc_scores.get(doc_id, 0) + doc_scores_data[0][term]
AddWeight(doc_scores, doc_id, w) ==
    IF doc_id \in Range(ItemKeys(doc_scores))
    THEN [doc_scores EXCEPT ![ItemAt(doc_scores, doc_id)].score = RatAdd(@, w)]
    ELSE Append(doc_scores, [id |-> doc_id, score |-> RatAdd(<<0, 1>>, w)])

\* the weight the table yields for (doc_id, term): doc_scores_data[0][term],
\* or <<>> when the document has no entry or the term is not in it
Weight(scores, objs, doc_id, term) ==
    LET doc_scores_data == get(scores, doc_id)
    IN  IF doc_scores_data # <<>> /\ term \in DOMAIN objs[doc_scores_data[1]]
        THEN objs[doc_scores_data[1]][term]
        ELSE <<>>

RECURSIVE TfIdfDocs(_, _, _, _, _)
TfIdfDocs(scores, objs, term, doc_id, doc_scores) ==
    IF doc_id >= Len(scores.buckets) THEN doc_scores
    ELSE LET w == Weight(scores, objs, doc_id, term)
         IN  TfIdfDocs(scores, objs, term, doc_id + 1,
                       IF w # <<>> THEN AddWeight(doc_scores, doc_id, w)
                       ELSE doc_scores)

RECURSIVE TfIdfScan(_, _, _, _)
TfIdfScan(scores, objs, query_terms, doc_scores) ==
    IF query_terms = <<>> THEN doc_scores
    ELSE TfIdfScan(scores, objs, Tail(query_terms),
                   TfIdfDocs(scores, objs, Head(query_terms), 0, doc_scores))

\* search_with_tf_idf(query)
search_with_tf_idf(scores, objs, q) ==
    SortedDesc(TfIdfScan(scores, objs, preprocess(q), <<>>), TRUE)

\* what a search call leaves in self.inverted_index, and what it returns
SearchCall(index, q) ==
    [index |-> AfterGets(index, preprocess(q)), result |-> search(index, q)]

\* the tf_idf_scores store after the get calls of search_with_tf_idf:
\* one per doc_id of range(len(buckets)), for each query term
RECURSIVE AfterTfIdfGets(_, _)
AfterTfIdfGets(d, query_terms) ==
    IF query_terms = <<>> THEN d
    ELSE AfterTfIdfGets(AfterGets(d, [i \in 1..Len(d.buckets) |-> i - 1]),
                        Tail(query_terms))

\* what a search_with_tf_idf call leaves in self.tf_idf_scores and in the
\* objects it refers to, and what it returns
TfIdfCall(scores, objs, q) ==
    [scores |-> AfterTfIdfGets(scores, preprocess(q)), heap |-> objs,
     result |-> search_with_tf_idf(scores, objs, q)]

(***************************************************************************)
(* Assignment-01: DocumentSearchEngine                                     *)
(***************************************************************************)
noun_suffixes ==
    { <<"i","o","n">>, <<"m","e","n","t">>, <<"n","e","s","s">>,
      <<"i","t","y">>, <<"t","y">>, <<"a","n","c","e">>, <<"e","n","c","e">>,
      <<"u","r","e">>, <<"s","h","i","p">>, <<"h","o","o","d">>, <<"e","r">>,
      <<"o","r">>, <<"i","s","t">>, <<"a","l">>, <<"a","g","e">>, <<"c","y">>,
      <<"d","o","m">> }

\* extract_nouns(text, isTitle)
RECURSIVE extract_nouns(_, _)
extract_nouns(text, isTitle) ==
    IF text = <<>> THEN <<>>
    ELSE LET word == lemmatize(Lower(Head(text)))
             keep == \/ isTitle
                     \/ IsUpperChar(word[1])
                     \/ \E suf \in noun_suffixes : EndsWith(word, suf)
         IN  (IF keep THEN <<word>> ELSE <<>>)
                \o extract_nouns(Tail(text), isTitle)

\* index_document(doc_id, title, content): the two indexes after it
index_document(tindex, cindex, doc_id, title, content) ==
    [title_index |-> AddTerms(tindex, extract_nouns(title, TRUE), doc_id),
     content_index |-> AddTerms(cindex, extract_nouns(content, FALSE), doc_id)]

\* load_and_index_documents from doc_id on
RECURSIVE LoadAndIndexFrom(_, _, _)
LoadAndIndexFrom(st, files, doc_id) ==
    IF doc_id >= Len(files) THEN st
    ELSE LET f == files[doc_id + 1]
             ix == index_document(st.title_index, st.content_index, doc_id,
                                  f.title, f.content)
         IN  LoadAndIndexFrom([documents |-> Append(st.documents, f),
                               title_index |-> ix.title_index,
                               content_index |-> ix.content_index],
                              files, doc_id + 1)

\* search(query, search_by) of Assignment-01: the ranked (id, score) items
ranked_docs(index, q) == SortedDesc(TfScan(index, preprocess(q), <<>>), FALSE)

\* search(query, search_by) of Assignment-01: the ids it returns
search1(index, q) ==
    IF preprocess(q) = <<>> THEN <<>>
    ELSE ItemKeys(ranked_docs(index, q))

\* what a search call of Assignment-01 leaves in the index, and its result
Search1Call(index, q) ==
    [index |-> AfterGets(index, preprocess(q)), result |-> search1(index, q)]

(***************************************************************************)
(* Assignment-03: the Binary Independence Model                            *)
(***************************************************************************)
\* a < b for two str values (lexicographic, by code point)
RECURSIVE LexLess(_, _)
LexLess(a, b) ==
    IF b = <<>> THEN FALSE
    ELSE IF a = <<>> THEN TRUE
    ELSE IF CharCode(Head(a)) # CharCode(Head(b))
         THEN CharCode(Head(a)) < CharCode(Head(b))
         ELSE LexLess(Tail(a), Tail(b))

\* sorted(vocabulary)
RECURSIVE SortedWords(_)
SortedWords(S) ==
    IF S = {} THEN <<>>
    ELSE LET least == CHOOSE w \in S : \A x \in S \ {w} : LexLess(w, x)
         IN  <<least>> \o SortedWords(S \ {least})

\* the vocabulary of create_term_document_matrix
Vocabulary(docs) ==
    SortedWords(UNION {Range(preprocess(docs[i])) : i \in DOMAIN docs})

\* the matrix of create_term_document_matrix: one 0/1 row per document
TermDocumentMatrix(docs) ==
    LET vocabulary == Vocabulary(docs)
    IN  [d \in DOMAIN docs |->
            [j \in DOMAIN vocabulary |->
                IF vocabulary[j] \in Range(preprocess(docs[d])) THEN 1 ELSE 0]]

\* query_vector(query, vocabulary)
query_vector(q, vocabulary) ==
    LET query_terms == preprocess(q)
    IN  [j \in DOMAIN vocabulary |->
            IF vocabulary[j] \in Range(query_terms) THEN 1 ELSE 0]

\* sum(vector)
RECURSIVE SumSeq(_)
SumSeq(v) == IF v = <<>> THEN 0 ELSE Head(v) + SumSeq(Tail(v))

Min(a, b) == IF a < b THEN a ELSE b

\* the count with the test d == 1 alone
IntersectionDocOnes(doc_vector, query_vec) ==
    Cardinality({j \in 1..Min(Len(doc_vector), Len(query_vec)) :
                    doc_vector[j] = 1})

\* sum(1 for d, q in zip(doc_vector, query_vector) if d == q == 1)
Intersection(doc_vector, query_vec) ==
    Cardinality({j \in 1..Min(Len(doc_vector), Len(query_vec)) :
                    doc_vector[j] = query_vec[j] /\ query_vec[j] = 1})

\* the Dice score without the test of the denominator: a denominator of 0
\* stands for the ZeroDivisionError
DiceUnguarded(doc_vector, query_vec) ==
    <<2 * Intersection(doc_vector, query_vec),
      SumSeq(doc_vector) + SumSeq(query_vec)>>

\* compute_similarity(doc_vector, query_vector): the Dice score, 0 when
\* both sums are 0
compute_similarity(doc_vector, query_vec) ==
    LET intersection == Intersection(doc_vector, query_vec)
        doc_sum == SumSeq(doc_vector)
        query_sum == SumSeq(query_vec)
    IN  IF doc_sum + query_sum > 0
        THEN <<2 * intersection, doc_sum + query_sum>>
        ELSE <<0, 1>>

\* a ranking that leaves out the documents of score 0
rankMatching(matrix, query_vec) ==
    LET Matches(item) == item.score[1] > 0
    IN  SortedDesc(SelectSeq([d \in DOMAIN matrix |->
                                [id |-> d - 1,
                                 score |-> compute_similarity(matrix[d], query_vec)]],
                             Matches),
                   TRUE)

\* rank_documents(term_document_matrix, query_vec); document idx is row idx+1
rank_documents(matrix, query_vec) ==
    SortedDesc([d \in DOMAIN matrix |->
                   [id |-> d - 1,
                    score |-> compute_similarity(matrix[d], query_vec)]],
               TRUE)

\* bim_retrieval(documents, query), with the index kept beside each text
bim_retrieval(docs, q) ==
    LET ranked == rank_documents(TermDocumentMatrix(docs),
                                 query_vector(q, Vocabulary(docs)))
    IN  [i \in DOMAIN ranked |->
            [id |-> ranked[i].id, score |-> ranked[i].score,
             doc |-> docs[ranked[i].id + 1]]]

(***************************************************************************)
(* Assignment-03: the proximal-nodes model                                 *)
(***************************************************************************)
DocPrefix == <<"d","o","c","_">>

\* f"doc_{doc_id}" (one digit: the model has fewer than ten documents)
DocNode(id) == DocPrefix \o <<Digits[id + 1]>>

\* neighbor.startswith("doc_")
StartsWithDoc(node) ==
    Len(node) >= Len(DocPrefix) /\ SubSeq(node, 1, Len(DocPrefix)) = DocPrefix

\* int(neighbor.split("_")[1]) for a node build_graph made
DocIndex(node) == IndexOf(Digits, node[Len(DocPrefix) + 1]) - 1

\* add_node(node)
add_node(g, node) ==
    IF node \in DOMAIN g THEN g
    ELSE [n \in DOMAIN g \cup {node} |-> IF n \in DOMAIN g THEN g[n] ELSE {}]

\* an add_edge that records the edge at node1 only
add_edgeOneWay(g, node1, node2) ==
    LET g1 == add_node(add_node(g, node1), node2)
    IN  [g1 EXCEPT ![node1] = @ \cup {node2}]

\* add_edge(node1, node2)
add_edge(g, node1, node2) ==
    LET g1 == add_node(add_node(g, node1), node2)
        g2 == [g1 EXCEPT ![node1] = @ \cup {node2}]
    IN  [g2 EXCEPT ![node2] = @ \cup {node1}]

\* combinations(terms, 2): the pairs of positions i < j, in that order
RECURSIVE PairsFrom(_, _, _)
PairsFrom(terms, i, j) ==
    IF i >= Len(terms) THEN <<>>
    ELSE IF j > Len(terms) THEN PairsFrom(terms, i + 1, i + 2)
    ELSE <<<<terms[i], terms[j]>>>> \o PairsFrom(terms, i, j + 1)

\* the add_edge calls build_graph makes for one document, in order
EdgeCalls(text, id) ==
    LET terms == preprocessAlnum(text)
    IN  [i \in DOMAIN terms |-> <<terms[i], DocNode(id)>>]
            \o PairsFrom(terms, 1, 2)

\* graph.get(current_node, [])
GraphGet(g, node) == IF node \in DOMAIN g THEN g[node] ELSE {}

\* what graph.get(current_node, []) leaves in the graph
GraphAfterGet(g, node) == g

\* any(term in doc_content for term in proximal_nodes), where doc_content
\* is the lower-cased text and no term holds white space
ContainsAny(text, proximal_nodes) ==
    \E k \in DOMAIN proximal_nodes, i \in DOMAIN text :
        IsSubstring(proximal_nodes[k], Lower(text[i]))

\* every ordering of a finite set, as sequences
Orderings(S) ==
    {o \in [1..Cardinality(S) -> S] :
        \A i, j \in DOMAIN o : i # j => o[i] # o[j]}

(***************************************************************************)
(* Variable groups                                                         *)
(***************************************************************************)
dictVars == <<store, ret, added, deleted, lastKey, nOps>>

engineVars == <<folder, documents, inverted_index, tf_idf_scores, heap,
                title_index, content_index, loaded, nBuild, nTfIdf, query,
                search_by, result>>

graphVars == <<graph, cur_doc, edge_no, visited, connected_documents, queue>>

simVars == <<vectors, dice>>

idfVars == <<loop_doc_count, loop_df, loop_temp, loop_idf>>

nounVars == <<noun_text, noun_isTitle, nouns>>

\* the variables of the functions that are run on their own
aloneVars == <<simVars, idfVars, nounVars>>

vars == <<prog, lastOp, hashSeed, dictVars, engineVars, graphVars, aloneVars>>

NounIdle ==
    /\ noun_text = <<>>
    /\ noun_isTitle = FALSE
    /\ nouns = <<>>

IdfIdle ==
    /\ loop_doc_count = 0
    /\ loop_df = 0
    /\ loop_temp = 0
    /\ loop_idf = 0

SimIdle ==
    /\ vectors = <<>>
    /\ dice = <<>>

GraphIdle ==
    /\ graph = <<>>
    /\ cur_doc = 0
    /\ edge_no = 0
    /\ visited = {}
    /\ connected_documents = {}
    /\ queue = <<>>

DictIdle ==
    /\ store = <<>>
    /\ ret = <<>>
    /\ added = <<>>
    /\ deleted = {}
    /\ lastKey = 0
    /\ nOps = 0

EngineIdle ==
    /\ folder = <<>>
    /\ documents = <<>>
    /\ inverted_index = <<>>
    /\ tf_idf_scores = <<>>
    /\ heap = <<>>
    /\ title_index = <<>>
    /\ content_index = <<>>
    /\ loaded = FALSE
    /\ nBuild = 0
    /\ nTfIdf = 0
    /\ query = <<>>
    /\ search_by = "-"
    /\ result = <<>>

(***************************************************************************)
(* The stand-alone SimpleDictionary: any sequence of add, get, delete      *)
(***************************************************************************)
Keys == 0..MaxKey

Values == 0..MaxVal

InitDict ==
    /\ prog = "dict"
    /\ lastOp = "init"
    /\ hashSeed = 0
    /\ \E size \in 1..MaxSize : store = SimpleDictionary("int", size)
    /\ ret = <<>>
    /\ added = [k \in Keys |-> <<>>]
    /\ deleted = {}
    /\ lastKey = 0
    /\ nOps = 0
    /\ EngineIdle
    /\ GraphIdle
    /\ SimIdle
    /\ IdfIdle
    /\ NounIdle

DictAdd(key, value) ==
    /\ nOps < MaxOps
    /\ store' = add(store, key, value)
    /\ added' = [added EXCEPT ![key] = Append(@, value)]
    /\ lastOp' = "add"
    /\ lastKey' = key
    /\ nOps' = nOps + 1
    /\ ret' = <<>>
    /\ UNCHANGED <<prog, hashSeed, deleted, engineVars, graphVars, aloneVars>>

DictGet(key) ==
    /\ ret' = get(store, key)
    /\ lastOp' = "get"
    /\ lastKey' = key
    /\ UNCHANGED <<prog, hashSeed, store, added, deleted, nOps, engineVars,
                   graphVars, aloneVars>>

DictDelete(key) ==
    /\ nOps < MaxOps
    /\ store' = delete(store, key)
    /\ added' = [added EXCEPT ![key] = <<>>]
    /\ deleted' = deleted \cup {key}
    /\ lastOp' = "delete"
    /\ lastKey' = key
    /\ nOps' = nOps + 1
    /\ ret' = <<>>
    /\ UNCHANGED <<prog, hashSeed, engineVars, graphVars, aloneVars>>

NextDict ==
    \/ \E key \in Keys, value \in Values : DictAdd(key, value)
    \/ \E key \in Keys : DictGet(key)
    \/ \E key \in Keys : DictDelete(key)

SpecDict == InitDict /\ [][NextDict]_vars

\* the positions <<bucket, place>> of the entries of a store
Entries(d) ==
    UNION {{<<b, i>> : i \in 1..Len(d.buckets[b])} : b \in DOMAIN d.buckets}

\* C1: after any sequence of add and delete calls, get(k) returns exactly
\* the values added under k since the last delete(k), in insertion order,
\* and the empty list for a key that is absent; the get call that was just
\* made returned that list.
C1_GetReturnsAdded ==
    prog = "dict" =>
        /\ \A k \in Keys : get(store, k) = added[k]
        /\ lastOp = "get" => ret = added[lastKey]

\* C1 witness: a get returned the values added to a key after its delete,
\* while another key sits before it in the same bucket.
C1_Witness ==
    /\ prog = "dict"
    /\ lastOp = "get"
    /\ lastKey \in deleted
    /\ Len(ret) >= 1
    /\ \E b \in DOMAIN store.buckets :
          /\ Len(store.buckets[b]) = 2
          /\ store.buckets[b][2].k = lastKey

\* C2: each key has at most one entry across all buckets, and the number
\* of buckets equals the size fixed at construction.
C2_OneEntryPerKey ==
    prog = "dict" =>
        /\ Len(store.buckets) = store.size
        /\ \A k \in Keys :
              Cardinality({e \in Entries(store) :
                              store.buckets[e[1]][e[2]].k = k}) <= 1

\* C2 witness: two keys share a bucket and one of them holds two values.
C2_Witness ==
    /\ prog = "dict"
    /\ \E b \in DOMAIN store.buckets :
          /\ Len(store.buckets[b]) = 2
          /\ Len(store.buckets[b][1].v) = 2

(***************************************************************************)
(* The search engines: construction, loading, indexing and queries         *)
(***************************************************************************)
\* DocumentSearchEngine(folder_path) of Assignment-02
InitEngine2 ==
    /\ prog = "a2"
    /\ lastOp = "init"
    /\ hashSeed \in HashSeeds
    /\ folder \in Folders
    /\ documents = SimpleDictionary("int", DefaultSize)
    /\ inverted_index = SimpleDictionary("str", DefaultSize)
    /\ tf_idf_scores = SimpleDictionary("int", DefaultSize)
    /\ heap = <<>>
    /\ title_index = <<>>
    /\ content_index = <<>>
    /\ loaded = FALSE
    /\ nBuild = 0
    /\ nTfIdf = 0
    /\ query = <<>>
    /\ search_by = "-"
    /\ result = <<>>
    /\ DictIdle
    /\ GraphIdle
    /\ SimIdle
    /\ IdfIdle
    /\ NounIdle

\* DocumentSearchEngine(folder_path) of Assignment-01
InitEngine1 ==
    /\ prog = "a1"
    /\ lastOp = "init"
    /\ hashSeed \in HashSeeds
    /\ folder \in Folders
    /\ documents = <<>>
    /\ inverted_index = <<>>
    /\ tf_idf_scores = <<>>
    /\ heap = <<>>
    /\ title_index = SimpleDictionary("str", DefaultSize)
    /\ content_index = SimpleDictionary("str", DefaultSize)
    /\ loaded = FALSE
    /\ nBuild = 0
    /\ nTfIdf = 0
    /\ query = <<>>
    /\ search_by = "-"
    /\ result = <<>>
    /\ DictIdle
    /\ GraphIdle
    /\ SimIdle
    /\ IdfIdle
    /\ NounIdle

\* run_ui is at its menu: no ranking result waits to be displayed (loading,
\* indexing and weighting return nothing)
AtMenu == lastOp \notin {"search", "search_with_tf_idf", "search1"}

LoadDocuments ==
    /\ prog = "a2"
    /\ ~loaded
    /\ documents' = load_documents(documents, folder)
    /\ loaded' = TRUE
    /\ lastOp' = "menu"
    /\ UNCHANGED <<prog, hashSeed, dictVars, graphVars, aloneVars,
                   folder, inverted_index,
                   tf_idf_scores, heap, title_index, content_index, nBuild,
                   nTfIdf, query, search_by, result>>

BuildInvertedIndex ==
    /\ prog = "a2"
    /\ loaded
    /\ AtMenu
    /\ nBuild < MaxBuild
    /\ inverted_index' = build_inverted_index(documents, inverted_index)
    /\ nBuild' = nBuild + 1
    /\ lastOp' = "menu"
    /\ UNCHANGED <<prog, hashSeed, dictVars, graphVars, aloneVars,
                   folder, documents,
                   tf_idf_scores, heap, title_index, content_index, loaded,
                   nTfIdf, query, search_by, result>>

ComputeTfIdf ==
    /\ prog = "a2"
    /\ loaded
    /\ AtMenu
    /\ nTfIdf < MaxTfIdf
    /\ LET st == compute_tf_idf(documents, tf_idf_scores, heap)
       IN  /\ tf_idf_scores' = st.scores
           /\ heap' = st.heap
    /\ nTfIdf' = nTfIdf + 1
    /\ lastOp' = "menu"
    /\ UNCHANGED <<prog, hashSeed, dictVars, graphVars, aloneVars,
                   folder, documents,
                   inverted_index, title_index, content_index, loaded,
                   nBuild, query, search_by, result>>

Search(q) ==
    /\ prog = "a2"
    /\ loaded
    /\ AtMenu
    /\ LET call == SearchCall(inverted_index, q)
       IN  /\ inverted_index' = call.index
           /\ result' = call.result
    /\ query' = q
    /\ lastOp' = "search"
    /\ UNCHANGED <<prog, hashSeed, dictVars, graphVars, aloneVars,
                   folder, documents,
                   tf_idf_scores, heap, title_index, content_index, loaded,
                   nBuild, nTfIdf, search_by>>

SearchWithTfIdf(q) ==
    /\ prog = "a2"
    /\ loaded
    /\ AtMenu
    /\ LET call == TfIdfCall(tf_idf_scores, heap, q)
       IN  /\ tf_idf_scores' = call.scores
           /\ heap' = call.heap
           /\ result' = call.result
    /\ query' = q
    /\ lastOp' = "search_with_tf_idf"
    /\ UNCHANGED <<prog, hashSeed, dictVars, graphVars, aloneVars,
                   folder, documents,
                   inverted_index, title_index, content_index, loaded,
                   nBuild, nTfIdf, search_by>>

LoadAndIndexDocuments ==
    /\ prog = "a1"
    /\ ~loaded
    /\ LET st == LoadAndIndexFrom([documents |-> documents,
                                   title_index |-> title_index,
                                   content_index |-> content_index],
                                  folder, 0)
       IN  /\ documents' = st.documents
           /\ title_index' = st.title_index
           /\ content_index' = st.content_index
    /\ loaded' = TRUE
    /\ lastOp' = "menu"
    /\ UNCHANGED <<prog, hashSeed, dictVars, graphVars, aloneVars,
                   folder, inverted_index,
                   tf_idf_scores, heap, nBuild, nTfIdf, query, search_by,
                   result>>

Search1(q, by) ==
    /\ prog = "a1"
    /\ loaded
    /\ AtMenu
    /\ IF by = "title"
       THEN LET call == Search1Call(title_index, q)
            IN  /\ title_index' = call.index
                /\ result' = call.result
                /\ UNCHANGED content_index
       ELSE LET call == Search1Call(content_index, q)
            IN  /\ content_index' = call.index
                /\ result' = call.result
                /\ UNCHANGED title_index
    /\ query' = q
    /\ search_by' = by
    /\ lastOp' = "search1"
    /\ UNCHANGED <<prog, hashSeed, dictVars, graphVars, aloneVars,
                   folder, documents,
                   inverted_index, tf_idf_scores, heap, loaded, nBuild,
                   nTfIdf>>

\* display_results, and run_ui going round its loop: the result is dropped
DisplayResults ==
    /\ prog \in {"a1", "a2"}
    /\ ~AtMenu
    /\ lastOp' = "menu"
    /\ query' = <<>>
    /\ search_by' = "-"
    /\ result' = <<>>
    /\ UNCHANGED <<prog, hashSeed, dictVars, graphVars, aloneVars,
                   folder, documents,
                   inverted_index, tf_idf_scores, heap, title_index,
                   content_index, loaded, nBuild, nTfIdf>>

InitEngines == InitEngine1 \/ InitEngine2

NextEngines ==
    \/ LoadDocuments
    \/ BuildInvertedIndex
    \/ ComputeTfIdf
    \/ \E q \in Queries : Search(q)
    \/ \E q \in Queries : SearchWithTfIdf(q)
    \/ LoadAndIndexDocuments
    \/ \E q \in Queries, by \in {"title", "content"} : Search1(q, by)
    \/ DisplayResults

SpecEngines == InitEngines /\ [][NextEngines]_vars

(***************************************************************************)
(* Properties of the search engines                                        *)
(***************************************************************************)
\* every word of the model's texts and queries, and the terms they yield
Words == {W_cat, W_Cats, W_owners, W_dog, W_the, W_owner}

Terms == {lemmatize(Lower(w)) : w \in Words}

\* C3: after load_documents and one build_inverted_index, the id of every
\* loaded document d occurs in inverted_index.get(t) exactly as often as t
\* occurs in the preprocessed title plus content of d, for every term t and
\* any number of documents.
C3_PostingsMatchFrequency ==
    (prog = "a2" /\ loaded /\ nBuild = 1) =>
        \A i \in 1..Len(folder), t \in Terms :
            Count(get(inverted_index, t), i - 1)
                = Count(preprocess(DocText(folder[i])), t)

\* the score the Term-Frequency search owes document id for query q:
\* one per occurrence of id in the posting list of each query term
RECURSIVE TfScore(_, _, _)
TfScore(index, query_terms, id) ==
    IF query_terms = <<>> THEN 0
    ELSE Count(get(index, Head(query_terms)), id)
            + TfScore(index, Tail(query_terms), id)

\* the index the last Term-Frequency search read
SearchedIndex ==
    IF prog = "a2" THEN inverted_index
    ELSE IF search_by = "title" THEN title_index ELSE content_index

\* the ids the last Term-Frequency search returned, in order
ReturnedIds == IF prog = "a2" THEN ItemKeys(result) ELSE result

ReturnedScore(i) == TfScore(SearchedIndex, preprocess(query), ReturnedIds[i])

TfSearched == lastOp \in {"search", "search1"}

\* C4 as claimed: the Term-Frequency search returns its documents by score
\* descending, documents of equal score in ascending documentId order.
C4_TiesByAscendingId ==
    TfSearched =>
        \A i, j \in DOMAIN ReturnedIds :
            i < j =>
                /\ ReturnedScore(i) >= ReturnedScore(j)
                /\ ReturnedScore(i) = ReturnedScore(j)
                      => ReturnedIds[i] < ReturnedIds[j]

\* the posting lists the search scans, in scanning order
RECURSIVE Postings(_, _)
Postings(index, query_terms) ==
    IF query_terms = <<>> THEN <<>>
    ELSE get(index, Head(query_terms)) \o Postings(index, Tail(query_terms))

\* where the scan first meets document id
FirstMet(id) ==
    LET scanned == Postings(SearchedIndex, preprocess(query))
    IN  CHOOSE i \in DOMAIN scanned :
            /\ scanned[i] = id
            /\ \A j \in 1..(i - 1) : scanned[j] # id

\* C4, amended: the Term-Frequency search returns its documents by score
\* descending; documents of equal score appear in the order in which the
\* scan of the query terms' posting lists first meets them, which is
\* ascending documentId order when the query has a single term.
C4_TiesByFirstMet ==
    TfSearched =>
        LET ids == ReturnedIds
            score == [i \in DOMAIN ids |-> ReturnedScore(i)]
            met == [i \in DOMAIN ids |-> FirstMet(ids[i])]
            terms == Len(preprocess(query))
        IN  \A i, j \in DOMAIN ids :
                i < j =>
                    /\ score[i] >= score[j]
                    /\ score[i] = score[j]
                          => /\ met[i] < met[j]
                             /\ terms = 1 => ids[i] < ids[j]

\* C4 witness: a two-term search returned two documents of equal score,
\* the higher id first.
C4_Witness ==
    /\ TfSearched
    /\ Len(preprocess(query)) = 2
    /\ \E i, j \in DOMAIN ReturnedIds :
          /\ i < j
          /\ ReturnedScore(i) = ReturnedScore(j)
          /\ ReturnedIds[i] > ReturnedIds[j]

\* C11: the Term-Frequency search scores a document by the number of times
\* its id is posted under the query terms, each query term occurrence and
\* each repeated id counted, and returns exactly the documents whose score
\* is at least 1, each once (Assignment-02 returns the score with the id).
C11_TfScoreIsPostingCount ==
    TfSearched =>
        LET ids == ReturnedIds
            index == SearchedIndex
            query_terms == preprocess(query)
            owed == [id \in 0..MaxDocs |-> TfScore(index, query_terms, id)]
        IN  /\ \A i, j \in DOMAIN ids : i # j => ids[i] # ids[j]
            /\ \A id \in 0..MaxDocs : (id \in Range(ids)) <=> owed[id] >= 1
            /\ prog = "a2" =>
                  \A i \in DOMAIN result :
                      result[i].score = owed[result[i].id]

\* C11 witness: a search over a built index returned a document with a score
\* above 1 and left out a loaded document whose score is 0.
C11_Witness ==
    /\ lastOp = "search"
    /\ nBuild = 1
    /\ \E i \in DOMAIN result : result[i].score >= 2
    /\ \E id \in 0..(Len(folder) - 1) :
          /\ id < DefaultSize
          /\ id \notin Range(ReturnedIds)

\* C6 as claimed: a second compute_tf_idf on an unchanged corpus leaves the
\* weight the table yields for every (document, term) pair as it was after
\* the first call.
C6_RecomputeKeepsWeights ==
    [][(nTfIdf = 1 /\ nTfIdf' = 2) =>
          \A d \in 0..(MaxDocs - 1), t \in Terms :
              Weight(tf_idf_scores', heap', d, t)
                  = Weight(tf_idf_scores, heap, d, t)]_vars

\* the preprocessed terms of the loaded document id
DocTerms(id) == preprocess(DocText(folder[id + 1]))

\* the number of loaded documents that contain term
DocFrequency(term) ==
    Cardinality({id \in 0..(Len(folder) - 1) : term \in Range(DocTerms(id))})

\* the TF-IDF score owed to document id: over the query term occurrences
\* present in it, count / totalTerms times the idf of the term
RECURSIVE TfIdfScore(_, _)
TfIdfScore(query_terms, id) ==
    IF query_terms = <<>> THEN <<0, 1>>
    ELSE LET t == Head(query_terms)
             rest == TfIdfScore(Tail(query_terms), id)
         IN  IF t \in Range(DocTerms(id))
             THEN RatAdd(rest,
                         <<Count(DocTerms(id), t)
                              * Divisions(Len(folder), 1 + DocFrequency(t)),
                           Len(DocTerms(id))>>)
             ELSE rest

\* the result is exactly the loaded documents that share a term with the
\* query, each once, with the score owed to it
TfIdfResultAsOwed ==
    /\ \A i, j \in DOMAIN result : i # j => result[i].id # result[j].id
    /\ \A id \in 0..MaxDocs :
          (id \in Range(ItemKeys(result)))
              <=> /\ id < Len(folder)
                  /\ \E i \in DOMAIN preprocess(query) :
                        preprocess(query)[i] \in Range(DocTerms(id))
    /\ \A i \in DOMAIN result :
          result[i].id < Len(folder)
              => SameFraction(result[i].score,
                              TfIdfScore(preprocess(query), result[i].id))

\* C13 as claimed: after load_documents and a single compute_tf_idf,
\* search_with_tf_idf returns exactly the loaded documents that share a
\* preprocessed term with the query, each with the sum over the query term
\* occurrences present in it of count / totalTerms times idf, the document
\* frequency counting every loaded document that contains the term.
C13_TfIdfScoresLoadedDocuments ==
    (lastOp = "search_with_tf_idf" /\ nTfIdf = 1) => TfIdfResultAsOwed

(***************************************************************************)
(* The BIM retrieval system: main() of binaryIndependenceModel.py          *)
(***************************************************************************)
\* the texts load_documents can return: one text per file
Corpora == UNION {[1..n -> {DocText(f) : f \in Files}] : n \in 0..MaxDocs}

InitBim ==
    /\ prog = "bim"
    /\ lastOp = "init"
    /\ hashSeed = 0
    /\ DictIdle
    /\ GraphIdle
    /\ SimIdle
    /\ IdfIdle
    /\ NounIdle
    /\ folder = <<>>
    /\ documents \in Corpora
    /\ inverted_index = <<>>
    /\ tf_idf_scores = <<>>
    /\ heap = <<>>
    /\ title_index = <<>>
    /\ content_index = <<>>
    /\ loaded = TRUE
    /\ nBuild = 0
    /\ nTfIdf = 0
    /\ query = <<>>
    /\ search_by = "-"
    /\ result = <<>>

\* choice 1 of the menu: results = bim_retrieval(documents, query)
BimRetrieval(q) ==
    /\ prog = "bim"
    /\ lastOp # "bim_retrieval"
    /\ result' = bim_retrieval(documents, q)
    /\ query' = q
    /\ lastOp' = "bim_retrieval"
    /\ UNCHANGED <<prog, hashSeed, dictVars, graphVars, aloneVars,
                   folder, documents,
                   inverted_index, tf_idf_scores, heap, title_index,
                   content_index, loaded, nBuild, nTfIdf, search_by>>

\* the results are printed and the menu is shown again
BimPrint ==
    /\ prog = "bim"
    /\ lastOp = "bim_retrieval"
    /\ lastOp' = "menu"
    /\ query' = <<>>
    /\ result' = <<>>
    /\ UNCHANGED <<prog, hashSeed, dictVars, graphVars, aloneVars,
                   folder, documents,
                   inverted_index, tf_idf_scores, heap, title_index,
                   content_index, loaded, nBuild, nTfIdf, search_by>>

NextBim ==
    \/ \E q \in Queries : BimRetrieval(q)
    \/ BimPrint

SpecBim == InitBim /\ [][NextBim]_vars

\* C8: rank_documents returns exactly one (index, score) pair for each
\* document of the corpus, zero scores included, by score descending.
C8_BimRanksEveryDocument ==
    lastOp = "bim_retrieval" =>
        /\ Len(result) = Len(documents)
        /\ \A d \in 0..(Len(documents) - 1) :
              Cardinality({i \in DOMAIN result : result[i].id = d}) = 1
        /\ \A i, j \in DOMAIN result :
              i < j => ~RatLess(result[i].score, result[j].score)

\* C8 witness: a ranking that holds a document of score 0 below a document
\* of positive score.
C8_Witness ==
    /\ lastOp = "bim_retrieval"
    /\ \E i, j \in DOMAIN result :
          /\ i < j
          /\ result[i].score[1] > 0
          /\ result[j].score[1] = 0

(***************************************************************************)
(* The proximal-nodes retrieval: main() of proximalNodesModel.py           *)
(***************************************************************************)
\* the texts load_documents can return
GraphTexts ==
    { <<W_Cats, W_dog>>, <<W_dog>>, <<W_cat, W_cat>>, <<W_catdot>>,
      <<W_cat, W_doc0>> }

GraphCorpora == UNION {[1..n -> GraphTexts] : n \in 0..MaxGraphDocs}

\* the terms of interest a user can enter
ProximalWords == {W_cat, W_cats, W_dog, W_at, W_doc0}

ProximalLists == UNION {[1..n -> ProximalWords] : n \in 0..MaxQueryLen}

InitGraph ==
    /\ prog = "graph"
    /\ lastOp = "build_graph"
    /\ hashSeed = 0
    /\ DictIdle
    /\ folder = <<>>
    /\ documents \in GraphCorpora
    /\ inverted_index = <<>>
    /\ tf_idf_scores = <<>>
    /\ heap = <<>>
    /\ title_index = <<>>
    /\ content_index = <<>>
    /\ loaded = TRUE
    /\ nBuild = 0
    /\ nTfIdf = 0
    /\ query = <<>>
    /\ search_by = "-"
    /\ result = <<>>
    /\ graph = <<>>
    /\ cur_doc = 0
    /\ edge_no = 0
    /\ visited = {}
    /\ connected_documents = {}
    /\ queue = <<>>
    /\ SimIdle
    /\ IdfIdle
    /\ NounIdle

\* build_graph: the next add_edge call of the document being linked
AddEdge ==
    /\ prog = "graph"
    /\ lastOp = "build_graph"
    /\ cur_doc < Len(documents)
    /\ LET calls == EdgeCalls(documents[cur_doc + 1], cur_doc)
       IN  /\ edge_no < Len(calls)
           /\ graph' = add_edge(graph, calls[edge_no + 1][1], calls[edge_no + 1][2])
           /\ edge_no' = edge_no + 1
    /\ UNCHANGED <<prog, lastOp, hashSeed, dictVars, engineVars, aloneVars,
                   cur_doc,
                   visited, connected_documents, queue>>

\* build_graph: the document is linked, on to the next one
NextDocument ==
    /\ prog = "graph"
    /\ lastOp = "build_graph"
    /\ cur_doc < Len(documents)
    /\ edge_no = Len(EdgeCalls(documents[cur_doc + 1], cur_doc))
    /\ cur_doc' = cur_doc + 1
    /\ edge_no' = 0
    /\ UNCHANGED <<prog, lastOp, hashSeed, dictVars, engineVars, aloneVars,
                   graph, visited, connected_documents, queue>>

\* build_graph returns the graph; main shows its menu
GraphBuilt ==
    /\ prog = "graph"
    /\ lastOp = "build_graph"
    /\ cur_doc = Len(documents)
    /\ lastOp' = "menu"
    /\ UNCHANGED <<prog, hashSeed, dictVars, engineVars, graphVars, aloneVars>>

\* retrieve_documents(proximal_nodes, graph, documents) is entered
RetrieveDocuments(proximal_nodes) ==
    /\ prog = "graph"
    /\ lastOp = "menu"
    /\ query' = proximal_nodes
    /\ visited' = {}
    /\ connected_documents' = {}
    /\ queue' = proximal_nodes
    /\ result' = <<>>
    /\ lastOp' = "bfs"
    /\ UNCHANGED <<prog, hashSeed, dictVars, aloneVars, folder, documents,
                   inverted_index, tf_idf_scores, heap, title_index,
                   content_index, loaded, nBuild, nTfIdf, search_by, graph,
                   cur_doc, edge_no>>

\* one iteration of the while loop; the neighbours that are term nodes are
\* queued in the order the set yields them
BfsStep ==
    /\ prog = "graph"
    /\ lastOp = "bfs"
    /\ queue # <<>>
    /\ LET current_node == Head(queue)
           neighbors == GraphGet(graph, current_node)
           docs == {n \in neighbors : StartsWithDoc(n)}
       IN  /\ graph' = GraphAfterGet(graph, current_node)
           /\ IF current_node \notin visited
              THEN /\ visited' = visited \cup {current_node}
                   /\ connected_documents' = connected_documents \cup
                         {n \in docs :
                             ContainsAny(documents[DocIndex(n) + 1], query)}
                   /\ \E o \in Orderings(neighbors \ docs) :
                         queue' = Tail(queue) \o o
              ELSE /\ queue' = Tail(queue)
                   /\ UNCHANGED <<visited, connected_documents>>
    /\ UNCHANGED <<prog, lastOp, hashSeed, dictVars, engineVars, aloneVars,
                   cur_doc,
                   edge_no>>

\* the queue is empty: return connected_documents
BfsReturn ==
    /\ prog = "graph"
    /\ lastOp = "bfs"
    /\ queue = <<>>
    /\ result' = connected_documents
    /\ lastOp' = "retrieve_documents"
    /\ UNCHANGED <<prog, hashSeed, dictVars, aloneVars, folder, documents,
                   inverted_index, tf_idf_scores, heap, title_index,
                   content_index, loaded, nBuild, nTfIdf, query, search_by,
                   graphVars>>

\* the connected documents are printed and the menu is shown again
GraphPrint ==
    /\ prog = "graph"
    /\ lastOp = "retrieve_documents"
    /\ lastOp' = "menu"
    /\ query' = <<>>
    /\ result' = <<>>
    /\ visited' = {}
    /\ connected_documents' = {}
    /\ UNCHANGED <<prog, hashSeed, dictVars, aloneVars, folder, documents,
                   inverted_index, tf_idf_scores, heap, title_index,
                   content_index, loaded, nBuild, nTfIdf, search_by, graph,
                   cur_doc, edge_no, queue>>

NextGraph ==
    \/ AddEdge
    \/ NextDocument
    \/ GraphBuilt
    \/ \E proximal_nodes \in ProximalLists : RetrieveDocuments(proximal_nodes)
    \/ BfsStep
    \/ BfsReturn
    \/ GraphPrint

SpecGraph == InitGraph /\ [][NextGraph]_vars

\* the loop of retrieve_documents runs whenever it can: the program is
\* sequential and nothing else is scheduled
SpecGraphFair ==
    SpecGraph /\ WF_vars(BfsStep) /\ WF_vars(BfsReturn)

\* the term nodes of the graph
TermNodes == {n \in DOMAIN graph : ~StartsWithDoc(n)}

\* the term nodes reachable from the nodes of S through term-to-term edges
RECURSIVE ReachableTerms(_)
ReachableTerms(S) ==
    LET more == (UNION {graph[n] : n \in S}) \cap TermNodes
    IN  IF more \subseteq S THEN S ELSE ReachableTerms(S \cup more)

\* C10 as claimed: retrieve_documents returns exactly the document nodes
\* adjacent to a term node reachable from a query term through term-to-term
\* edges whose lower-cased text contains a query term.
C10_ReturnsReachableContaining ==
    (prog = "graph" /\ lastOp = "retrieve_documents") =>
        result =
            {n \in UNION {graph[t] : t \in ReachableTerms(Range(query) \cap TermNodes)} :
                /\ StartsWithDoc(n)
                /\ ContainsAny(documents[DocIndex(n) + 1], query)}

C10_Terminates == (lastOp = "bfs") ~> (lastOp = "retrieve_documents")

(***************************************************************************)
(* compute_similarity applied to two binary vectors of equal length        *)
(***************************************************************************)
BinaryVectors(n) == [1..n -> {0, 1}]

InitSim ==
    /\ prog = "sim"
    /\ lastOp = "init"
    /\ hashSeed = 0
    /\ DictIdle
    /\ EngineIdle
    /\ GraphIdle
    /\ \E n \in 0..MaxVecLen :
          \E a \in BinaryVectors(n), b \in BinaryVectors(n) : vectors = <<a, b>>
    /\ dice = <<>>
    /\ IdfIdle
    /\ NounIdle

ComputeSimilarity ==
    /\ prog = "sim"
    /\ lastOp = "init"
    /\ dice' = <<compute_similarity(vectors[1], vectors[2]),
                 compute_similarity(vectors[2], vectors[1])>>
    /\ lastOp' = "compute_similarity"
    /\ UNCHANGED <<prog, hashSeed, dictVars, engineVars, graphVars, idfVars,
                   nounVars,
                   vectors>>

NextSim == ComputeSimilarity

SpecSim == InitSim /\ [][NextSim]_vars

\* C9: for binary vectors a and b of equal length,
\* compute_similarity(a, b) equals compute_similarity(b, a).
C9_DiceSymmetric ==
    (prog = "sim" /\ lastOp = "compute_similarity") => dice[1] = dice[2]

\* C9 witness: the score of two different vectors that share a 1 was
\* computed both ways.
C9_Witness ==
    /\ prog = "sim"
    /\ lastOp = "compute_similarity"
    /\ vectors[1] # vectors[2]
    /\ SumSeq(vectors[1]) # SumSeq(vectors[2])
    /\ dice[1][1] > 0

\* the number of 1s of a binary vector
HammingWeight(v) == Cardinality({j \in DOMAIN v : v[j] = 1})

\* the positions where both vectors hold 1
CommonOnes(a, b) == {j \in DOMAIN a \cap DOMAIN b : a[j] = 1 /\ b[j] = 1}

\* C14: compute_similarity divides by no zero; it returns 0 when the
\* document vector and the query vector both have Hamming weight 0, and
\* otherwise 2 * |intersection| / (|docVector| + |queryVector|), a value
\* between 0 and 1 inclusive.
C14_DiceDefinedAndBounded ==
    (prog = "sim" /\ lastOp = "compute_similarity") =>
        LET a == vectors[1]
            b == vectors[2]
            score == dice[1]
        IN  /\ score[2] > 0
            /\ 0 <= score[1] /\ score[1] <= score[2]
            /\ IF HammingWeight(a) = 0 /\ HammingWeight(b) = 0
               THEN score[1] = 0
               ELSE SameFraction(score,
                                 <<2 * Cardinality(CommonOnes(a, b)),
                                   HammingWeight(a) + HammingWeight(b)>>)

\* C14 witness: the score of two all-zero vectors of length 2 or more was
\* computed.
C14_Witness ==
    /\ prog = "sim"
    /\ lastOp = "compute_similarity"
    /\ Len(vectors[1]) >= 2
    /\ HammingWeight(vectors[1]) = 0
    /\ HammingWeight(vectors[2]) = 0
    /\ dice[1][1] = 0

(***************************************************************************)
(* The IDF loop of compute_tf_idf, one iteration per step                  *)
(***************************************************************************)
InitIdf ==
    /\ prog = "idf"
    /\ lastOp = "idf_loop"
    /\ hashSeed = 0
    /\ DictIdle
    /\ EngineIdle
    /\ GraphIdle
    /\ SimIdle
    /\ loop_doc_count \in 0..MaxDocCount
    /\ loop_df \in 1..MaxDf
    /\ loop_temp = loop_doc_count
    /\ loop_idf = 0
    /\ NounIdle

\* one pass through the body of the while loop
IdfStep ==
    /\ prog = "idf"
    /\ lastOp = "idf_loop"
    /\ IdfContinues(loop_temp)
    /\ loop_idf' = loop_idf + 1
    /\ loop_temp' = loop_temp \div (1 + loop_df)
    /\ UNCHANGED <<prog, lastOp, hashSeed, dictVars, engineVars, graphVars,
                   simVars, nounVars, loop_doc_count, loop_df>>

\* the loop condition fails: idf is final
IdfExit ==
    /\ prog = "idf"
    /\ lastOp = "idf_loop"
    /\ ~IdfContinues(loop_temp)
    /\ lastOp' = "idf"
    /\ UNCHANGED <<prog, hashSeed, dictVars, engineVars, graphVars, simVars,
                   idfVars, nounVars>>

NextIdf == IdfStep \/ IdfExit

SpecIdf == InitIdf /\ [][NextIdf]_vars

\* the loop is straight-line code: an enabled iteration or exit is taken
SpecIdfFair == SpecIdf /\ WF_vars(IdfStep) /\ WF_vars(IdfExit)

\* the final idf is the number of floor-divisions by 1 + df that bring
\* doc_count down to at most 1 (0 when doc_count <= 1), compute_tf_idf
\* computes the same number, and idf never exceeds doc_count
IdfLoopResult ==
    /\ prog = "idf" => loop_idf + loop_temp <= loop_doc_count
    /\ (prog = "idf" /\ lastOp = "idf") =>
          /\ loop_idf = Divisions(loop_doc_count, 1 + loop_df)
          /\ loop_idf = IdfLoop(loop_doc_count, loop_df, 0)
          /\ loop_doc_count <= 1 => loop_idf = 0

\* C12: for every doc_count >= 0 and df >= 1 the IDF loop terminates, and
\* its idf is the number of floor-divisions by 1 + df needed to bring the
\* running value, starting at doc_count, down to at most 1: 0 when
\* doc_count <= 1.
C12_IdfLoopCountsDivisions ==
    /\ []IdfLoopResult
    /\ (prog = "idf" /\ lastOp = "idf_loop") ~> (lastOp = "idf")

\* C12 witness: the loop ended after two iterations or more with df >= 2.
C12_Witness ==
    /\ prog = "idf"
    /\ lastOp = "idf"
    /\ loop_df >= 2
    /\ loop_idf >= 2

(***************************************************************************)
(* extract_nouns of Assignment-01 applied to a text                        *)
(***************************************************************************)
\* the words of the texts: capitalised or not, with a noun suffix or not
NounWords == {W_Cats, W_dog, W_owner, W_owners}

NounTexts == UNION {[1..n -> NounWords] : n \in 0..MaxTextLen}

InitNouns ==
    /\ prog = "nouns"
    /\ lastOp = "init"
    /\ hashSeed = 0
    /\ DictIdle
    /\ EngineIdle
    /\ GraphIdle
    /\ SimIdle
    /\ IdfIdle
    /\ noun_text \in NounTexts
    /\ noun_isTitle \in BOOLEAN
    /\ nouns = <<>>

ExtractNouns ==
    /\ prog = "nouns"
    /\ lastOp = "init"
    /\ nouns' = extract_nouns(noun_text, noun_isTitle)
    /\ lastOp' = "extract_nouns"
    /\ UNCHANGED <<prog, hashSeed, dictVars, engineVars, graphVars, simVars,
                   idfVars, noun_text, noun_isTitle>>

NextNouns == ExtractNouns

SpecNouns == InitNouns /\ [][NextNouns]_vars

\* the token is capitalised in the source text
Capitalized(w) == IsUpperChar(w[1])

\* the token, lower-cased and lemmatized, ends with a noun suffix
HasNounSuffix(w) ==
    \E suf \in noun_suffixes : EndsWith(lemmatize(Lower(w)), suf)

\* the tokens of text that are capitalised in the source or end with a noun
\* suffix, in source order, each lower-cased and lemmatized
RECURSIVE NounsOwed(_)
NounsOwed(text) ==
    IF text = <<>> THEN <<>>
    ELSE (IF Capitalized(Head(text)) \/ HasNounSuffix(Head(text))
          THEN <<lemmatize(Lower(Head(text)))>> ELSE <<>>)
            \o NounsOwed(Tail(text))

\* C16 as claimed: extract_nouns applied to content text keeps, in source
\* order, exactly the tokens that are capitalised in the source text or end
\* with a noun suffix; applied to a title it keeps every token in source
\* order; the empty text yields the empty sequence.
C16_KeepsCapitalizedOrSuffixed ==
    (prog = "nouns" /\ lastOp = "extract_nouns") =>
        IF noun_isTitle
        THEN nouns = [i \in DOMAIN noun_text |-> lemmatize(Lower(noun_text[i]))]
        ELSE nouns = NounsOwed(noun_text)

(***************************************************************************)
(* The ranking programs together                                           *)
(***************************************************************************)
Init == InitEngine1 \/ InitEngine2 \/ InitBim \/ InitGraph

Next == NextEngines \/ NextBim \/ NextGraph

Spec == Init /\ [][Next]_vars

(***************************************************************************)
(* Properties of the ranking programs together                             *)
(***************************************************************************)
\* the query holds stop words only, or nothing
StopOnly(q) == \A i \in DOMAIN q : Lower(q[i]) \in stop_words

\* a ranking call that depends on the query terms has just returned
Ranked ==
    lastOp \in {"search", "search1", "search_with_tf_idf", "bim_retrieval"}

\* C5 as claimed: for a query of stop words only, or the empty query, the
\* Term-Frequency search, the TF-IDF search and the BIM ranking return an
\* empty result.
C5_StopWordQueryEmpty ==
    (Ranked /\ StopOnly(query)) => result = <<>>

\* C5, amended: for a query of stop words only, or the empty query, the
\* Term-Frequency search and the TF-IDF search return an empty result, and
\* the BIM ranking returns every document of the corpus once, with score 0
\* (an empty result for an empty corpus only).
C5_StopWordQueryNeutral ==
    (Ranked /\ StopOnly(query)) =>
        IF lastOp = "bim_retrieval"
        THEN /\ Len(result) = Len(documents)
             /\ \A d \in 0..(Len(documents) - 1) :
                   \E i \in DOMAIN result :
                       result[i].id = d /\ result[i].score[1] = 0
        ELSE result = <<>>

\* C5 witness: the BIM ranking answered a query of one stop word over a
\* corpus of two documents or more.
C5_Witness ==
    /\ lastOp = "bim_retrieval"
    /\ Len(query) > 0
    /\ StopOnly(query)
    /\ Len(documents) >= 2
    /\ Len(result) >= 2

\* C7: the Term-Frequency search, the TF-IDF search and retrieve_documents
\* leave the document store, the inverted indexes, the TF-IDF table and the
\* graph (nodes and neighbour sets) as they were before the call.
C7_RankingLeavesIndexes ==
    [][lastOp' \in {"search", "search1", "search_with_tf_idf", "bfs",
                    "retrieve_documents"}
          => /\ documents' = documents
             /\ inverted_index' = inverted_index
             /\ tf_idf_scores' = tf_idf_scores
             /\ heap' = heap
             /\ title_index' = title_index
             /\ content_index' = content_index
             /\ graph' = graph]_vars

\* C7 witness: a search over a built index returned documents for a query
\* one of whose terms is absent from the index.
C7_Witness ==
    /\ lastOp = "search"
    /\ nBuild = 1
    /\ result # <<>>
    /\ \E i \in DOMAIN query :
          /\ Lower(query[i]) \notin stop_words
          /\ get(inverted_index, lemmatize(Lower(query[i]))) = <<>>

====
